---- MODULE Spec2Model ----
(***************************************************************************)
(* State-machine model of the concurrency demonstrations of the            *)
(* 15445-bootcamp repository: mutex.cpp, scoped_lock.cpp,                  *)
(* condition_variable.cpp and rwlock.cpp, and of the multi-resource        *)
(* acquisition algorithm that std::scoped_lock stands for.                 *)
(*                                                                         *)
(* Each source file is a program of its own; prog says which program a     *)
(* behaviour runs.  Thread 0 is main, threads 1..n are the std::thread     *)
(* objects main constructs.  A blocking call (lock, lock_shared, wait) is  *)
(* an action whose guard is the condition the call blocks on.              *)
(* count += k is a load followed by a store, as the compiled code does it. *)
(***************************************************************************)
EXTENDS Integers, Sequences, FiniteSets, TLC

\* ---------------------------------------------------------------- bounds
\* Calls of add_count per thread (the demo makes 1; the end-to-end scenario 1000).
MaxIters == 2
\* Threads running waiter_thread (the demo starts 1).
MaxWaiters == 2
\* Threads running read_value (the demo starts 4).
NumReaders == 2
\* Reader threads of the continuous-arrival scenario.
StressReaders == 2
\* Lockable resources a MultiLock request may name.
NumRes == 2
\* IntPtrManager objects (main of wrapper_class.cpp has a and b).
NumMgr == 2
\* Calls of new int (main of wrapper_class.cpp makes 1).
MaxAlloc == 2

\* ------------------------------------------------------ program constants
\* mutex.cpp / scoped_lock.cpp: main starts t1 and t2 (in the MultiLock scenario
\* the two threads take their locks through MultiLock).
NumThreads == 2
\* condition_variable.cpp: two incrementers, predicate count == 2.
NumIncr == 2
\* rwlock.cpp: t2 and t5 run write_value.
NumWriters == 2
\* write_value adds 3.
WriteAdd == 3

VARIABLES
  prog,           \* the program that runs
  iters,          \* calls of add_count each thread makes
  mayFail,        \* the critical section of add_count may throw or return early
  nWaiters,       \* threads running waiter_thread
  useAll,         \* the notifier calls notify_all instead of notify_one
  req,            \* MultiLock: each thread's ordered list of resources
  pc,             \* each thread's position
  count,          \* int count
  tmp,            \* each thread's register for count += k
  left,           \* calls of add_count each thread has still to make
  owner,          \* std::mutex m: the thread that holds it, 0 when free
  seen,           \* the value of count each thread printed (-1: none yet)
  waiters,        \* std::condition_variable cv: the threads blocked on it
  woken,          \* history: the waiters that were woken at least once
  reader_count,   \* std::shared_mutex m: shared holders
  writer_active,  \* std::shared_mutex m: held exclusively
  behind,         \* history, per reader: the writers that were waiting when its lock_shared call started
  held,           \* MultiLock: per resource the thread that holds it, 0 when free
  idx,            \* MultiLock: position in req of the next resource to take
  alive,          \* IntPtrManager: per object, constructed and not yet destroyed
  ptr_,           \* IntPtrManager: per object its int *ptr_, 0 for nullptr
  heap,           \* per allocation of new int: unallocated, live, deleted, deleted_twice
  cell,           \* per allocation the int it holds
  moved           \* history: the objects last used as the source of a move

config == <<prog, iters, mayFail, nWaiters, useAll, req>>
cvvars == <<waiters, woken>>
rwvars == <<reader_count, writer_active, behind>>
mlvars == <<held, idx>>
wrvars == <<alive, ptr_, heap, cell, moved>>
vars == <<config, pc, count, tmp, left, owner, seen, cvvars, rwvars, mlvars, wrvars>>

Programs == {"mutex", "scoped", "cv", "rw", "rwstress", "multi", "wrapper"}
Resources == 1..NumRes
Managers == 1..NumMgr
Allocations == 1..MaxAlloc

\* ------------------------------------------------------------ thread sets
Incrementers == 1..NumIncr
Waiters == (NumIncr + 1)..(NumIncr + nWaiters)
Writers == IF prog = "rw" THEN 1..NumWriters ELSE IF prog = "rwstress" THEN {1} ELSE {}
Readers ==
  IF prog = "rw" THEN (NumWriters + 1)..(NumWriters + NumReaders)
  ELSE IF prog = "rwstress" THEN 2..(1 + StressReaders) ELSE {}

ThreadsOf(p, nw) ==
  CASE p \in {"mutex", "scoped"} -> 1..NumThreads
    [] p = "cv" -> 1..(NumIncr + nw)
    [] p = "rw" -> 1..(NumWriters + NumReaders)
    [] p = "rwstress" -> 1..(1 + StressReaders)
    [] p = "multi" -> 1..NumThreads
    [] p = "wrapper" -> {}

Threads == DOMAIN pc

\* The first statement of the function thread t runs.
EntryOf(p, t) ==
  CASE p = "mutex" -> "lock"
    [] p = "scoped" -> "slk"
    [] p = "cv" -> IF t <= NumIncr THEN "i_slk" ELSE "w_lk"
    [] p = "rw" -> IF t <= NumWriters THEN "x_call" ELSE "r_call"
    [] p = "rwstress" -> IF t = 1 THEN "x_call" ELSE "r_call"
    [] p = "multi" -> "ml_lock0"

\* Ordered lists of distinct resources, at least one.
Requests ==
  UNION {{s \in [1..n -> Resources] : \A i, j \in 1..n : i # j => s[i] # s[j]} : n \in 1..NumRes}

Range(s) == {s[i] : i \in DOMAIN s}

\* The state after construction of the globals, main about to start the
\* threads of one of the programs P.
InitOf(P) ==
  /\ prog \in P
  /\ iters \in (IF prog \in {"mutex", "scoped"} THEN 1..MaxIters ELSE {1})
  /\ mayFail \in (IF prog \in {"mutex", "scoped"} THEN BOOLEAN ELSE {FALSE})
  /\ nWaiters \in (IF prog = "cv" THEN 1..MaxWaiters ELSE {0})
  /\ useAll \in (IF prog = "cv" THEN BOOLEAN ELSE {FALSE})
  /\ req \in (IF prog = "multi" THEN [1..NumThreads -> Requests] ELSE {<<>>})
  /\ pc = [t \in ThreadsOf(prog, nWaiters) |-> EntryOf(prog, t)]
  /\ count = 0
  /\ tmp = [t \in ThreadsOf(prog, nWaiters) |-> 0]
  /\ left = [t \in ThreadsOf(prog, nWaiters) |-> iters]
  /\ owner = 0
  /\ seen = [t \in {0} \cup ThreadsOf(prog, nWaiters) |-> -1]
  /\ waiters = {}
  /\ woken = {}
  /\ reader_count = 0
  /\ writer_active = FALSE
  /\ behind = [t \in ThreadsOf(prog, nWaiters) |-> {}]
  /\ held = [r \in Resources |-> 0]
  /\ idx = [t \in ThreadsOf(prog, nWaiters) |-> 1]
  /\ alive = [m \in Managers |-> FALSE]
  /\ ptr_ = [m \in Managers |-> 0]
  /\ heap = [p \in Allocations |-> "unallocated"]
  /\ cell = [p \in Allocations |-> 0]
  /\ moved = {}

Init == InitOf(Programs)

Goto(t, l) == pc' = [pc EXCEPT ![t] = l]

\* ------------------------------------------------------------ std::mutex
\* m.lock() without waiting for the holder to release.
mutex_lock_nowait(t) == owner' = t

\* m.lock(): blocks until m is free, then the caller holds it.
mutex_lock(t) == owner = 0 /\ owner' = t

\* m.unlock() that leaves m locked.
mutex_unlock_lost(t) == owner' = owner

\* m.unlock()
mutex_unlock(t) == owner' = 0

\* count += k, first half: read count.
CountLoad(t, from, to) ==
  /\ pc[t] = from
  /\ tmp' = [tmp EXCEPT ![t] = count]
  /\ Goto(t, to)
  /\ UNCHANGED <<config, wrvars, count, left, owner, seen, cvvars, rwvars, mlvars>>

\* count += k, second half: write the sum back.
CountStore(t, from, to, k) ==
  /\ pc[t] = from
  /\ count' = tmp[t] + k
  /\ Goto(t, to)
  /\ UNCHANGED <<config, wrvars, tmp, left, owner, seen, cvvars, rwvars, mlvars>>

\* ------------------------------------------------------------- mutex.cpp
MutexLock(t) ==
  /\ prog = "mutex" /\ pc[t] = "lock"
  /\ mutex_lock(t)
  /\ Goto(t, "load")
  /\ UNCHANGED <<config, wrvars, count, tmp, left, seen, cvvars, rwvars, mlvars>>

MutexLoad(t) == prog = "mutex" /\ CountLoad(t, "load", "store")

MutexStore(t) == prog = "mutex" /\ CountStore(t, "store", "unlock", 1)

\* m.unlock() and the return of add_count; the thread calls add_count again
\* while it has calls left.
MutexUnlock(t) ==
  /\ prog = "mutex" /\ pc[t] = "unlock"
  /\ mutex_unlock(t)
  /\ left' = [left EXCEPT ![t] = left[t] - 1]
  /\ Goto(t, IF left[t] > 1 THEN "lock" ELSE "done")
  /\ UNCHANGED <<config, wrvars, count, tmp, seen, cvvars, rwvars, mlvars>>

\* The closing note of mutex.cpp, with m.unlock() run on the way out all the same.
MutexThrowUnlocks(t) ==
  /\ prog = "mutex" /\ mayFail /\ pc[t] \in {"load", "store", "unlock"}
  /\ mutex_unlock(t)
  /\ Goto(t, "failed")
  /\ UNCHANGED <<config, wrvars, count, tmp, left, seen, cvvars, rwvars, mlvars>>

\* The closing note of mutex.cpp: add_count throws between m.lock() and
\* m.unlock().  The exception leaves add_count, m.unlock() is not called, and
\* the thread makes no further call.
MutexThrow(t) ==
  /\ prog = "mutex" /\ mayFail /\ pc[t] \in {"load", "store", "unlock"}
  /\ Goto(t, "failed")
  /\ UNCHANGED <<config, wrvars, count, tmp, left, owner, seen, cvvars, rwvars, mlvars>>

\* -------------------------------------------------------- scoped_lock.cpp
\* std::scoped_lock slk(m) that holds nothing (a guard bound to no mutex).
ScopedLockNoAcquire(t) ==
  /\ prog = "scoped" /\ pc[t] = "slk"
  /\ Goto(t, "s_load")
  /\ UNCHANGED <<config, wrvars, count, tmp, left, owner, seen, cvvars, rwvars, mlvars>>

\* std::scoped_lock slk(m): the constructor locks m.
ScopedLockCtor(t) ==
  /\ prog = "scoped" /\ pc[t] = "slk"
  /\ mutex_lock(t)
  /\ Goto(t, "s_load")
  /\ UNCHANGED <<config, wrvars, count, tmp, left, seen, cvvars, rwvars, mlvars>>

ScopedLoad(t) == prog = "scoped" /\ CountLoad(t, "s_load", "s_store")

ScopedStore(t) == prog = "scoped" /\ CountStore(t, "s_store", "s_exit", 1)

\* End of add_count: slk's destructor unlocks m.
ScopedLockDtor(t) ==
  /\ prog = "scoped" /\ pc[t] = "s_exit"
  /\ mutex_unlock(t)
  /\ left' = [left EXCEPT ![t] = left[t] - 1]
  /\ Goto(t, IF left[t] > 1 THEN "slk" ELSE "done")
  /\ UNCHANGED <<config, wrvars, count, tmp, seen, cvvars, rwvars, mlvars>>

\* slk's scope left early with m still locked (a guard without a destructor).
ScopedLeaveKeepsLock(t) ==
  /\ prog = "scoped" /\ mayFail /\ pc[t] \in {"s_load", "s_store", "s_exit"}
  /\ \E how \in {"returned", "failed"} : Goto(t, how)
  /\ UNCHANGED <<config, wrvars, count, tmp, left, owner, seen, cvvars, rwvars, mlvars>>

\* The scope of slk left before the end of add_count, by an early return or
\* by an exception that propagates out of it: slk is destroyed on the way out
\* and its destructor unlocks m.  The thread makes no further call.
ScopedLeave(t) ==
  /\ prog = "scoped" /\ mayFail /\ pc[t] \in {"s_load", "s_store", "s_exit"}
  /\ mutex_unlock(t)
  /\ \E how \in {"returned", "failed"} : Goto(t, how)
  /\ UNCHANGED <<config, wrvars, count, tmp, left, seen, cvvars, rwvars, mlvars>>

\* main of mutex.cpp and scoped_lock.cpp: after both joins, print count.
MainPrint ==
  /\ prog \in {"mutex", "scoped"}
  /\ \A t \in Threads : pc[t] = "done"
  /\ seen[0] = -1
  /\ seen' = [seen EXCEPT ![0] = count]
  /\ UNCHANGED <<config, wrvars, pc, count, tmp, left, owner, cvvars, rwvars, mlvars>>

\* ------------------------------------------------- std::condition_variable
\* cv.notify_one() that wakes every blocked thread.
NotifyOneWakesAll(S) == {{}}

\* cv.notify_one(): the sets of threads that may stay blocked, S being the
\* threads blocked now: one thread leaves (which one is unspecified); none
\* when none is blocked.
NotifyOne(S) == IF S = {} THEN {{}} ELSE {S \ {w} : w \in S}

\* cv.notify_all(): every blocked thread leaves.
NotifyAll(S) == {{}}

\* ------------------------------------------------- condition_variable.cpp
\* add_count_and_notify without its guard: the increment and the notify run
\* with m not taken.
IncrNoLock(t) ==
  /\ prog = "cv" /\ pc[t] = "i_slk"
  /\ Goto(t, "i_load")
  /\ UNCHANGED <<config, wrvars, count, tmp, left, owner, seen, cvvars, rwvars, mlvars>>

\* add_count_and_notify: std::scoped_lock slk(m)
IncrLock(t) ==
  /\ prog = "cv" /\ pc[t] = "i_slk"
  /\ mutex_lock(t)
  /\ Goto(t, "i_load")
  /\ UNCHANGED <<config, wrvars, count, tmp, left, seen, cvvars, rwvars, mlvars>>

IncrLoad(t) == prog = "cv" /\ CountLoad(t, "i_load", "i_store")

IncrStore(t) == prog = "cv" /\ CountStore(t, "i_store", "i_if", 1)

\* add_count_and_notify without the notification.
IncrNoNotify(t) ==
  /\ prog = "cv" /\ pc[t] = "i_if"
  /\ Goto(t, "i_exit")
  /\ UNCHANGED <<config, wrvars, count, tmp, left, owner, seen, cvvars, rwvars, mlvars>>

\* if (count == 2) cv.notify_one(); a notified thread leaves the blocked set
\* and goes on to re-acquire m.
IncrNotify(t) ==
  /\ prog = "cv" /\ pc[t] = "i_if"
  /\ \E rest \in (IF count # NumIncr THEN {waiters}
                  ELSE IF useAll THEN NotifyAll(waiters) ELSE NotifyOne(waiters)) :
       /\ waiters' = rest
       /\ woken' = woken \cup (waiters \ rest)
       /\ pc' = [u \in DOMAIN pc |->
                   IF u = t THEN "i_exit"
                   ELSE IF u \in waiters \ rest THEN "w_relock" ELSE pc[u]]
  /\ UNCHANGED <<config, wrvars, count, tmp, left, owner, seen, rwvars, mlvars>>

\* End of add_count_and_notify: slk's destructor unlocks m.
IncrUnlock(t) ==
  /\ prog = "cv" /\ pc[t] = "i_exit"
  /\ mutex_unlock(t)
  /\ Goto(t, "done")
  /\ UNCHANGED <<config, wrvars, count, tmp, left, seen, cvvars, rwvars, mlvars>>

\* std::unique_lock lk(m, std::defer_lock): lk is bound to m without locking it.
WaiterLockDeferred(t) ==
  /\ prog = "cv" /\ pc[t] = "w_lk"
  /\ Goto(t, "w_pred")
  /\ UNCHANGED <<config, wrvars, count, tmp, left, owner, seen, cvvars, rwvars, mlvars>>

\* waiter_thread: std::unique_lock lk(m)
WaiterLock(t) ==
  /\ prog = "cv" /\ pc[t] = "w_lk"
  /\ mutex_lock(t)
  /\ Goto(t, "w_pred")
  /\ UNCHANGED <<config, wrvars, count, tmp, left, seen, cvvars, rwvars, mlvars>>

\* cv.wait(lk, pred) that unlocks m first and enters the blocked set in a
\* later step.
WaitTwoSteps(t) ==
  /\ prog = "cv"
  /\ \/ /\ pc[t] = "w_pred"
        /\ IF count = NumIncr
             THEN Goto(t, "w_print") /\ UNCHANGED owner
             ELSE owner' = 0 /\ Goto(t, "w_unlocked")
        /\ UNCHANGED <<waiters, woken>>
     \/ /\ pc[t] = "w_unlocked"
        /\ waiters' = waiters \cup {t}
        /\ Goto(t, "w_blocked")
        /\ UNCHANGED <<owner, woken>>
  /\ UNCHANGED <<config, wrvars, count, tmp, left, seen, rwvars, mlvars>>

\* cv.wait(lk, []{return count == 2;}): while (!pred()) wait(lk).  With m
\* held, test the predicate: true, wait returns; false, unlock m and join
\* the blocked set in one atomic step.
WaitCheck(t) ==
  /\ prog = "cv" /\ pc[t] = "w_pred"
  /\ IF count = NumIncr
       THEN Goto(t, "w_print") /\ UNCHANGED <<owner, waiters>>
       ELSE /\ owner' = 0
            /\ waiters' = waiters \cup {t}
            /\ Goto(t, "w_blocked")
  /\ UNCHANGED <<config, wrvars, count, tmp, left, seen, woken, rwvars, mlvars>>

\* A blocked thread wakes without a notification (spurious wake-up).
SpuriousWake(t) ==
  /\ prog = "cv" /\ pc[t] = "w_blocked" /\ t \in waiters
  /\ waiters' = waiters \ {t}
  /\ woken' = woken \cup {t}
  /\ Goto(t, "w_relock")
  /\ UNCHANGED <<config, wrvars, count, tmp, left, owner, seen, rwvars, mlvars>>

\* A woken thread re-acquires m and wait returns without a look at the
\* predicate: cv.wait(lk) in place of cv.wait(lk, pred).
WaitRelockReturn(t) ==
  /\ prog = "cv" /\ pc[t] = "w_relock"
  /\ mutex_lock(t)
  /\ Goto(t, "w_print")
  /\ UNCHANGED <<config, wrvars, count, tmp, left, seen, cvvars, rwvars, mlvars>>

\* A woken thread re-acquires m inside wait, then tests the predicate again.
WaitRelock(t) ==
  /\ prog = "cv" /\ pc[t] = "w_relock"
  /\ mutex_lock(t)
  /\ Goto(t, "w_pred")
  /\ UNCHANGED <<config, wrvars, count, tmp, left, seen, cvvars, rwvars, mlvars>>

\* std::cout << "Printing count: " << count
WaiterPrint(t) ==
  /\ prog = "cv" /\ pc[t] = "w_print"
  /\ seen' = [seen EXCEPT ![t] = count]
  /\ Goto(t, "w_exit")
  /\ UNCHANGED <<config, wrvars, count, tmp, left, owner, cvvars, rwvars, mlvars>>

\* End of waiter_thread: lk's destructor unlocks m.
WaiterUnlock(t) ==
  /\ prog = "cv" /\ pc[t] = "w_exit"
  /\ mutex_unlock(t)
  /\ Goto(t, "done")
  /\ UNCHANGED <<config, wrvars, count, tmp, left, seen, cvvars, rwvars, mlvars>>

\* ------------------------------------------------------ std::shared_mutex
\* lock_shared() that does not wait for the exclusive holder.
lock_shared_nowait(t) == reader_count' = reader_count + 1

\* lock_shared() that waits for the other shared holders too.
lock_shared_alone(t) ==
  ~writer_active /\ reader_count = 0 /\ reader_count' = reader_count + 1

\* lock_shared(): blocks while m is held exclusively.  The standard names no
\* preference between waiting readers and writers, so a waiting writer does
\* not hold a reader back (glibc's default rwlock prefers readers).
lock_shared(t) == ~writer_active /\ reader_count' = reader_count + 1

\* unlock_shared() that leaves the shared holder counted.
unlock_shared_lost(t) == reader_count' = reader_count

\* unlock_shared()
unlock_shared(t) == reader_count' = reader_count - 1

\* lock() that waits for the exclusive holder only, not for the readers.
lock_exclusive_over_readers(t) == ~writer_active /\ writer_active' = TRUE

\* lock() that waits for the readers only, not for the exclusive holder.
lock_exclusive_over_writer(t) == reader_count = 0 /\ writer_active' = TRUE

\* lock(): blocks until m has no shared and no exclusive holder.
lock_exclusive(t) == reader_count = 0 /\ ~writer_active /\ writer_active' = TRUE

\* unlock() that leaves m marked as held exclusively.
unlock_exclusive_lost(t) == writer_active' = writer_active

\* unlock()
unlock_exclusive(t) == writer_active' = FALSE

\* -------------------------------------------------------------- rwlock.cpp
\* read_value: the std::shared_lock constructor calls m.lock_shared().
ReaderCall(t) ==
  /\ prog \in {"rw", "rwstress"} /\ pc[t] = "r_call"
  /\ behind' = [behind EXCEPT ![t] = {w \in Writers : pc[w] = "x_wait"}]
  /\ Goto(t, "r_wait")
  /\ UNCHANGED <<config, wrvars, count, tmp, left, owner, seen, cvvars, reader_count,
                 writer_active, mlvars>>

\* m.lock_shared() returns: t holds m in shared mode.
ReaderAcquire(t) ==
  /\ prog \in {"rw", "rwstress"} /\ pc[t] = "r_wait"
  /\ lock_shared(t)
  /\ Goto(t, "r_read")
  /\ UNCHANGED <<config, wrvars, count, tmp, left, owner, seen, cvvars, writer_active, behind,
                 mlvars>>

\* std::cout << "Reading value " + std::to_string(count)
ReaderRead(t) ==
  /\ prog \in {"rw", "rwstress"} /\ pc[t] = "r_read"
  /\ seen' = [seen EXCEPT ![t] = count]
  /\ behind' = [behind EXCEPT ![t] = {}]
  /\ Goto(t, "r_exit")
  /\ UNCHANGED <<config, wrvars, count, tmp, left, owner, cvvars, reader_count, writer_active,
                 mlvars>>

\* End of read_value: lk's destructor calls m.unlock_shared().  In the
\* continuous-arrival scenario the reader then comes back for another read.
ReaderRelease(t) ==
  /\ prog \in {"rw", "rwstress"} /\ pc[t] = "r_exit"
  /\ unlock_shared(t)
  /\ Goto(t, IF prog = "rwstress" THEN "r_call" ELSE "done")
  /\ UNCHANGED <<config, wrvars, count, tmp, left, owner, seen, cvvars, writer_active,
                 behind, mlvars>>

\* write_value: the std::unique_lock constructor calls m.lock().
WriterCall(t) ==
  /\ prog \in {"rw", "rwstress"} /\ pc[t] = "x_call"
  /\ Goto(t, "x_wait")
  /\ UNCHANGED <<config, wrvars, count, tmp, left, owner, seen, cvvars, rwvars, mlvars>>

\* m.lock() returns: t holds m in exclusive mode.
WriterAcquire(t) ==
  /\ prog \in {"rw", "rwstress"} /\ pc[t] = "x_wait"
  /\ lock_exclusive(t)
  /\ Goto(t, "x_load")
  /\ UNCHANGED <<config, wrvars, count, tmp, left, owner, seen, cvvars, reader_count,
                 behind, mlvars>>

WriterLoad(t) == prog \in {"rw", "rwstress"} /\ CountLoad(t, "x_load", "x_store")

\* count += 3
WriterStore(t) == prog \in {"rw", "rwstress"} /\ CountStore(t, "x_store", "x_exit", WriteAdd)

\* End of write_value: lk's destructor calls m.unlock().
WriterRelease(t) ==
  /\ prog \in {"rw", "rwstress"} /\ pc[t] = "x_exit"
  /\ unlock_exclusive(t)
  /\ Goto(t, "done")
  /\ UNCHANGED <<config, wrvars, count, tmp, left, owner, seen, cvvars, reader_count,
                 behind, mlvars>>

\* ----------------------------------------------------------------- MultiLock
\* The resources thread t holds.
HeldBy(t) == {r \in Resources : held[r] = t}

\* Step 1 taking R0 without waiting for it to be free.
MultiLockFirstNoWait(t) ==
  /\ prog = "multi" /\ pc[t] = "ml_lock0"
  /\ held' = [held EXCEPT ![req[t][1]] = t]
  /\ idx' = [idx EXCEPT ![t] = 2]
  /\ Goto(t, IF Len(req[t]) = 1 THEN "ml_held" ELSE "ml_try")
  /\ UNCHANGED <<config, wrvars, count, tmp, left, owner, seen, cvvars, rwvars>>

\* Step 1: Lock(R0), blocking until R0 is free.
MultiLockFirst(t) ==
  /\ prog = "multi" /\ pc[t] = "ml_lock0"
  /\ held[req[t][1]] = 0
  /\ held' = [held EXCEPT ![req[t][1]] = t]
  /\ idx' = [idx EXCEPT ![t] = 2]
  /\ Goto(t, IF Len(req[t]) = 1 THEN "ml_held" ELSE "ml_try")
  /\ UNCHANGED <<config, wrvars, count, tmp, left, owner, seen, cvvars, rwvars>>

\* Step 2 with a failed TryLock going straight to the back-off, the resources
\* taken so far still held.
MultiLockTryKeeps(t) ==
  /\ prog = "multi" /\ pc[t] = "ml_try"
  /\ IF held[req[t][idx[t]]] = 0
       THEN /\ held' = [held EXCEPT ![req[t][idx[t]]] = t]
            /\ idx' = [idx EXCEPT ![t] = idx[t] + 1]
            /\ Goto(t, IF idx[t] = Len(req[t]) THEN "ml_held" ELSE "ml_try")
       ELSE /\ Goto(t, "ml_backoff")
            /\ UNCHANGED <<held, idx>>
  /\ UNCHANGED <<config, wrvars, count, tmp, left, owner, seen, cvvars, rwvars>>

\* Step 2 with Lock(Ri) in place of TryLock(Ri): the thread waits for Ri with
\* the resources taken so far still held.
MultiLockTryBlocks(t) ==
  /\ prog = "multi" /\ pc[t] = "ml_try"
  /\ held[req[t][idx[t]]] = 0
  /\ held' = [held EXCEPT ![req[t][idx[t]]] = t]
  /\ idx' = [idx EXCEPT ![t] = idx[t] + 1]
  /\ Goto(t, IF idx[t] = Len(req[t]) THEN "ml_held" ELSE "ml_try")
  /\ UNCHANGED <<config, wrvars, count, tmp, left, owner, seen, cvvars, rwvars>>

\* Step 2 with a TryLock that reports success on a held resource and takes it
\* from its holder.
MultiLockTrySteals(t) ==
  /\ prog = "multi" /\ pc[t] = "ml_try"
  /\ held' = [held EXCEPT ![req[t][idx[t]]] = t]
  /\ idx' = [idx EXCEPT ![t] = idx[t] + 1]
  /\ Goto(t, IF idx[t] = Len(req[t]) THEN "ml_held" ELSE "ml_try")
  /\ UNCHANGED <<config, wrvars, count, tmp, left, owner, seen, cvvars, rwvars>>

\* Step 2: TryLock(Ri).  Success: Ri is taken, and with the last one the call
\* returns.  Failure (step 3): go on to release what was taken.
MultiLockTry(t) ==
  /\ prog = "multi" /\ pc[t] = "ml_try"
  /\ IF held[req[t][idx[t]]] = 0
       THEN /\ held' = [held EXCEPT ![req[t][idx[t]]] = t]
            /\ idx' = [idx EXCEPT ![t] = idx[t] + 1]
            /\ Goto(t, IF idx[t] = Len(req[t]) THEN "ml_held" ELSE "ml_try")
       ELSE /\ Goto(t, "ml_unwind")
            /\ UNCHANGED <<held, idx>>
  /\ UNCHANGED <<config, wrvars, count, tmp, left, owner, seen, cvvars, rwvars>>

\* Step 3: release the resources taken so far, the last taken first; with
\* none left, back off.
MultiLockUnwind(t) ==
  /\ prog = "multi" /\ pc[t] = "ml_unwind"
  /\ held' = [held EXCEPT ![req[t][idx[t] - 1]] = 0]
  /\ idx' = [idx EXCEPT ![t] = idx[t] - 1]
  /\ Goto(t, IF idx[t] = 2 THEN "ml_backoff" ELSE "ml_unwind")
  /\ UNCHANGED <<config, wrvars, count, tmp, left, owner, seen, cvvars, rwvars>>

\* Step 3, end: after the back-off, retry the full sequence from R0.
MultiLockRetry(t) ==
  /\ prog = "multi" /\ pc[t] = "ml_backoff"
  /\ Goto(t, "ml_lock0")
  /\ UNCHANGED <<config, wrvars, count, tmp, left, owner, seen, cvvars, rwvars, mlvars>>

\* The end of the guard's scope with the resources left held.
MultiLockReleaseNone(t) ==
  /\ prog = "multi" /\ pc[t] = "ml_held"
  /\ Goto(t, "done")
  /\ UNCHANGED <<config, wrvars, count, tmp, left, owner, seen, cvvars, rwvars, mlvars>>

\* The owning guard's scope ends: all resources are released together.
MultiLockRelease(t) ==
  /\ prog = "multi" /\ pc[t] = "ml_held"
  /\ held' = [r \in Resources |-> IF r \in Range(req[t]) THEN 0 ELSE held[r]]
  /\ idx' = [idx EXCEPT ![t] = 1]
  /\ Goto(t, "done")
  /\ UNCHANGED <<config, wrvars, count, tmp, left, owner, seen, cvvars, rwvars>>

\* -------------------------------------------------------- wrapper_class.cpp
\* The values main passes: IntPtrManager() stores 0, a(445), a.SetVal(645).
CtorVals == {0, 445}
SetVals == {645}

\* new int: an allocation not handed out before.
NewInt == CHOOSE p \in Allocations :
            heap[p] = "unallocated" /\ \A q \in Allocations : heap[q] = "unallocated" => p <= q

\* delete p.  Deleting what was already deleted is recorded as such.
Delete(p) == [heap EXCEPT ![p] = IF heap[p] = "live" THEN "deleted" ELSE "deleted_twice"]

\* IntPtrManager() and IntPtrManager(int val): ptr_ = new int; *ptr_ = val.
IntPtrManagerCtor(m, v) ==
  /\ prog = "wrapper" /\ ~alive[m]
  /\ \E p \in Allocations : heap[p] = "unallocated"
  /\ ptr_' = [ptr_ EXCEPT ![m] = NewInt]
  /\ heap' = [heap EXCEPT ![NewInt] = "live"]
  /\ cell' = [cell EXCEPT ![NewInt] = v]
  /\ alive' = [alive EXCEPT ![m] = TRUE]
  /\ moved' = moved \ {m}
  /\ UNCHANGED <<config, pc, count, tmp, left, owner, seen, cvvars, rwvars, mlvars>>

\* ~IntPtrManager(): if (ptr_) delete ptr_.
IntPtrManagerDtor(m) ==
  /\ prog = "wrapper" /\ alive[m]
  /\ heap' = IF ptr_[m] # 0 THEN Delete(ptr_[m]) ELSE heap
  /\ alive' = [alive EXCEPT ![m] = FALSE]
  /\ moved' = moved \ {m}
  /\ UNCHANGED <<ptr_, cell>>
  /\ UNCHANGED <<config, pc, count, tmp, left, owner, seen, cvvars, rwvars, mlvars>>

\* A move constructor that copies other.ptr_ and leaves it in other.
IntPtrManagerMoveKeepsOther(m, other) ==
  /\ prog = "wrapper" /\ ~alive[m] /\ alive[other] /\ m # other
  /\ ptr_' = [ptr_ EXCEPT ![m] = ptr_[other]]
  /\ alive' = [alive EXCEPT ![m] = TRUE]
  /\ moved' = (moved \ {m}) \cup {other}
  /\ UNCHANGED <<heap, cell>>
  /\ UNCHANGED <<config, pc, count, tmp, left, owner, seen, cvvars, rwvars, mlvars>>

\* IntPtrManager(IntPtrManager &&other): ptr_ = other.ptr_; other.ptr_ = nullptr.
IntPtrManagerMove(m, other) ==
  /\ prog = "wrapper" /\ ~alive[m] /\ alive[other] /\ m # other
  /\ ptr_' = [ptr_ EXCEPT ![m] = ptr_[other], ![other] = 0]
  /\ alive' = [alive EXCEPT ![m] = TRUE]
  /\ moved' = (moved \ {m}) \cup {other}
  /\ UNCHANGED <<heap, cell>>
  /\ UNCHANGED <<config, pc, count, tmp, left, owner, seen, cvvars, rwvars, mlvars>>

\* operator=(IntPtrManager &&other), m being *this.  With ptr_ == other.ptr_
\* (the same object, or two objects that both hold nullptr) it returns at
\* once; otherwise it deletes what it holds and takes over other's pointer.
MoveAssign(m, other) ==
  /\ prog = "wrapper" /\ alive[m] /\ alive[other]
  /\ IF ptr_[m] = ptr_[other]
       THEN /\ moved' = IF m = other THEN moved ELSE (moved \ {m}) \cup {other}
            /\ UNCHANGED <<ptr_, heap>>
       ELSE /\ heap' = IF ptr_[m] # 0 THEN Delete(ptr_[m]) ELSE heap
            /\ ptr_' = [ptr_ EXCEPT ![m] = ptr_[other], ![other] = 0]
            /\ moved' = (moved \ {m}) \cup {other}
  /\ UNCHANGED <<alive, cell>>
  /\ UNCHANGED <<config, pc, count, tmp, left, owner, seen, cvvars, rwvars, mlvars>>

\* SetVal(val): *ptr_ = val.  main calls it on an object that holds an int;
\* on a moved-from object it would write through nullptr.
SetVal(m, v) ==
  /\ prog = "wrapper" /\ alive[m] /\ ptr_[m] # 0
  /\ cell' = [cell EXCEPT ![ptr_[m]] = v]
  /\ UNCHANGED <<alive, ptr_, heap, moved>>
  /\ UNCHANGED <<config, pc, count, tmp, left, owner, seen, cvvars, rwvars, mlvars>>

\* GetVal(): return *ptr_, which main prints.  main calls it on an object
\* that holds an int; on a moved-from object it would read through nullptr.
GetVal(m) ==
  /\ prog = "wrapper" /\ alive[m] /\ ptr_[m] # 0
  /\ seen' = [seen EXCEPT ![0] = cell[ptr_[m]]]
  /\ UNCHANGED <<config, wrvars, pc, count, tmp, left, owner, cvvars, rwvars, mlvars>>

\* ------------------------------------------------------------------ steps
MutexStep(t) == MutexLock(t) \/ MutexLoad(t) \/ MutexStore(t) \/ MutexUnlock(t)

ScopedStep(t) == ScopedLockCtor(t) \/ ScopedLoad(t) \/ ScopedStore(t) \/ ScopedLockDtor(t)

IncrStep(t) == IncrLock(t) \/ IncrLoad(t) \/ IncrStore(t) \/ IncrNotify(t) \/ IncrUnlock(t)

WaiterStep(t) ==
  WaiterLock(t) \/ WaitCheck(t) \/ WaitRelock(t) \/ WaiterPrint(t) \/ WaiterUnlock(t)

ReaderStep(t) == ReaderCall(t) \/ ReaderAcquire(t) \/ ReaderRead(t) \/ ReaderRelease(t)

WriterStep(t) ==
  WriterCall(t) \/ WriterAcquire(t) \/ WriterLoad(t) \/ WriterStore(t) \/ WriterRelease(t)

MultiLockStep(t) ==
  MultiLockFirst(t) \/ MultiLockTry(t) \/ MultiLockUnwind(t) \/ MultiLockRetry(t)
    \/ MultiLockRelease(t)

\* What thread t does when it is scheduled.
Step(t) ==
  MutexStep(t) \/ ScopedStep(t) \/ IncrStep(t) \/ WaiterStep(t) \/ ReaderStep(t)
    \/ WriterStep(t) \/ MultiLockStep(t)

NextMutex ==
  \/ MainPrint
  \/ \E t \in Threads : MutexLock(t)
  \/ \E t \in Threads : MutexLoad(t)
  \/ \E t \in Threads : MutexStore(t)
  \/ \E t \in Threads : MutexUnlock(t)
  \/ \E t \in Threads : MutexThrow(t)
  \/ \E t \in Threads : ScopedLockCtor(t)
  \/ \E t \in Threads : ScopedLoad(t)
  \/ \E t \in Threads : ScopedStore(t)
  \/ \E t \in Threads : ScopedLockDtor(t)
  \/ \E t \in Threads : ScopedLeave(t)

NextCv ==
  \/ \E t \in Threads : IncrLock(t)
  \/ \E t \in Threads : IncrLoad(t)
  \/ \E t \in Threads : IncrStore(t)
  \/ \E t \in Threads : IncrNotify(t)
  \/ \E t \in Threads : IncrUnlock(t)
  \/ \E t \in Threads : WaiterLock(t)
  \/ \E t \in Threads : WaitCheck(t)
  \/ \E t \in Threads : SpuriousWake(t)
  \/ \E t \in Threads : WaitRelock(t)
  \/ \E t \in Threads : WaiterPrint(t)
  \/ \E t \in Threads : WaiterUnlock(t)

NextRw ==
  \/ \E t \in Threads : ReaderCall(t)
  \/ \E t \in Threads : ReaderAcquire(t)
  \/ \E t \in Threads : ReaderRead(t)
  \/ \E t \in Threads : ReaderRelease(t)
  \/ \E t \in Threads : WriterCall(t)
  \/ \E t \in Threads : WriterAcquire(t)
  \/ \E t \in Threads : WriterLoad(t)
  \/ \E t \in Threads : WriterStore(t)
  \/ \E t \in Threads : WriterRelease(t)

NextMulti ==
  \/ \E t \in Threads : MultiLockFirst(t)
  \/ \E t \in Threads : MultiLockTry(t)
  \/ \E t \in Threads : MultiLockUnwind(t)
  \/ \E t \in Threads : MultiLockRetry(t)
  \/ \E t \in Threads : MultiLockRelease(t)

NextWrapper ==
  \/ \E m \in Managers, v \in CtorVals : IntPtrManagerCtor(m, v)
  \/ \E m \in Managers : IntPtrManagerDtor(m)
  \/ \E m, other \in Managers : IntPtrManagerMove(m, other)
  \/ \E m, other \in Managers : MoveAssign(m, other)
  \/ \E m \in Managers, v \in SetVals : SetVal(m, v)
  \/ \E m \in Managers : GetVal(m)

Next == NextMutex \/ NextCv \/ NextRw \/ NextMulti \/ NextWrapper

Spec == Init /\ [][Next]_vars

\* Every thread id some program uses.
ThreadIds ==
  1..(CHOOSE n \in {NumThreads, NumIncr + MaxWaiters, NumWriters + NumReaders,
                    1 + StressReaders} :
        \A k \in {NumThreads, NumIncr + MaxWaiters, NumWriters + NumReaders,
                   1 + StressReaders} : k <= n)

\* Fair scheduling of genuine parallel threads: a thread that is able to take
\* a step again and again eventually takes one (a thread blocked in lock() is
\* not passed over forever while the mutex keeps being released), and main
\* gets to print.  Nothing promises a spurious wake-up or a failure of a
\* critical section, and a thread whose blocking call is never able to return
\* may wait forever.
Fairness ==
  /\ WF_vars(MainPrint)
  /\ \A t \in ThreadIds : SF_vars(t \in Threads /\ Step(t))

FairSpec == Spec /\ Fairness

\* condition_variable.cpp alone.
InitCv == InitOf({"cv"})
CvSpec == InitCv /\ [][NextCv]_vars
FairCvSpec == CvSpec /\ Fairness

\* The MultiLock scenario alone.
InitMulti == InitOf({"multi"})
MultiSpec == InitMulti /\ [][NextMulti]_vars
FairMultiSpec == MultiSpec /\ Fairness

\* The three demo programs that only lock, work and unlock: mutex.cpp,
\* scoped_lock.cpp and rwlock.cpp.
InitDemo == InitOf({"mutex", "scoped", "rw"})
NextDemo == NextMutex \/ NextRw
DemoSpec == InitDemo /\ [][NextDemo]_vars
FairDemoSpec == DemoSpec /\ Fairness

\* rwlock.cpp and the continuous-arrival scenario alone.
InitRw == InitOf({"rw", "rwstress"})
RwSpec == InitRw /\ [][NextRw]_vars
FairRwSpec == RwSpec /\ Fairness

\* ------------------------------------------------------------------ claims
\* Thread t holds std::mutex m: it is between an acquisition of m and the
\* release that follows.
InCS(t) ==
  pc[t] \in {"load", "store", "unlock", "s_load", "s_store", "s_exit",
             "i_load", "i_store", "i_if", "i_exit", "w_pred", "w_print", "w_exit"}

\* C1: mutual exclusion.  In every reachable state at most one thread is
\* between its acquisition of the mutex (by m.lock() or by a scoped guard) and
\* its release, and that thread is the one the mutex records as its holder.
C1_MutualExclusion ==
  /\ \A t1, t2 \in Threads : t1 # t2 => ~(InCS(t1) /\ InCS(t2))
  /\ \A t \in Threads : InCS(t) => owner = t

\* One thread is inside its critical section while the other is blocked in lock.
C1_Witness ==
  \E t1, t2 \in Threads : pc[t1] = "store" /\ pc[t2] = "lock" /\ left[t2] = iters

\* C2: no lost update.  Once all threads have finished their K calls of
\* add_count, count is T*K, and that is the value main prints.
C2_NoLostUpdate ==
  prog \in {"mutex", "scoped"} =>
    /\ (\A t \in Threads : pc[t] = "done") => count = NumThreads * iters
    /\ seen[0] # -1 => seen[0] = NumThreads * iters

\* main has printed the total of two threads making two calls each.
C2_Witness == prog = "scoped" /\ iters = 2 /\ seen[0] = 4

\* A thread past the return of wait has count == 2 and holds m, and the value
\* a waiter printed is 2.
C3_Returned ==
  \A t \in Threads :
    /\ pc[t] \in {"w_print", "w_exit"} => count = NumIncr /\ owner = t
    /\ (prog = "cv" /\ t \in Waiters /\ seen[t] # -1) => seen[t] = NumIncr

\* A waiter that holds m and finds the predicate false moves to the blocked
\* set and nowhere else.
C3_Resuspends ==
  \A t \in Threads :
    (pc[t] = "w_pred" /\ count # NumIncr /\ pc'[t] # pc[t]) =>
      (pc'[t] = "w_blocked" /\ t \in waiters')

\* C3: wait(lk, pred) returns only with the predicate true and m held by the
\* caller, and a waiter that tests the predicate and finds it false (after a
\* notification or a spurious wake-up) suspends again instead of returning.
C3_WaitReturnsOnlyWhenTrue == [](C3_Returned) /\ [][C3_Resuspends]_vars

\* A waiter that was woken with count < 2 is suspended again.
C3_Witness ==
  \E t \in Threads : t \in woken /\ pc[t] = "w_blocked" /\ t \in waiters /\ count < NumIncr

\* C4: no lost wake-up.  With one waiter, the waiter always gets to return
\* from wait and finish, whatever the order in which the incrementers and the
\* waiter run (fair scheduling; no spurious wake-up is relied on).
C4_NoLostWakeup ==
  (prog = "cv" /\ nWaiters = 1) ~> (\A t \in Waiters : pc[t] = "done")

\* Both incrementers, and so the notification, ran before the waiter took m.
C4_Witness ==
  /\ prog = "cv" /\ nWaiters = 1
  /\ \A t \in Incrementers : pc[t] = "done"
  /\ \A t \in Waiters : pc[t] = "w_lk"

\* The blocked set holds exactly the suspended threads, none of which holds
\* m; a thread past the return of wait holds m.
C5_Suspended ==
  \A t \in Threads :
    /\ t \in waiters => (owner # t /\ pc[t] = "w_blocked")
    /\ pc[t] = "w_blocked" => t \in waiters
    /\ pc[t] \in {"w_print", "w_exit"} => owner = t

\* The step in which wait gives up m leaves m free and the caller in the
\* blocked set.
C5_ReleaseRegisters ==
  \A t \in Threads :
    (pc[t] = "w_pred" /\ owner = t /\ owner' # t) => (owner' = 0 /\ t \in waiters')

\* C5: wait unlocks m and enters the blocked set in one step, so no thread
\* can take m and notify in between; a suspended thread does not hold m, which
\* others may take; wait has returned only with m held again.
C5_WaitAtomic == [](C5_Suspended) /\ [][C5_ReleaseRegisters]_vars

\* While a waiter is suspended another thread holds m.
C5_Witness ==
  \E t, u \in Threads : t \in waiters /\ u # t /\ owner = u /\ pc[u] = "i_store"

\* What a step that executes the notification does to the blocked set.
C6_NotifyStep ==
  \A t \in Threads :
    (pc[t] = "i_if" /\ pc'[t] = "i_exit" /\ count = NumIncr) =>
      IF useAll
        THEN /\ waiters' = {}
             /\ \A w \in waiters : pc'[w] = "w_relock"
        ELSE IF waiters = {}
          THEN waiters' = {}
          ELSE \E w \in waiters :
                 /\ waiters' = waiters \ {w}
                 /\ pc'[w] = "w_relock"
                 /\ \A u \in waiters \ {w} : pc'[u] = "w_blocked"

\* C6: a notify_one that finds threads blocked takes exactly one of them out
\* of the blocked set and leaves the others blocked; a notify_all takes all
\* of them out.
C6_Notify == [][C6_NotifyStep]_vars

\* notify_one ran with two threads blocked: one of them was woken, the other
\* is still blocked.
C6_Witness ==
  /\ ~useAll /\ count = NumIncr
  /\ \E t \in Threads : pc[t] = "i_exit"
  /\ \E w, u \in Threads : w # u /\ woken = {w} /\ pc[w] = "w_relock" /\ waiters = {u}

\* Thread t holds the shared_mutex in exclusive / in shared mode.
HoldsExclusive(t) == pc[t] \in {"x_load", "x_store", "x_exit"}
HoldsShared(t) == pc[t] \in {"r_read", "r_exit"}

\* C7: reader/writer exclusivity.  writer_active implies reader_count = 0,
\* reader_count > 0 implies no writer is active, reader_count is never
\* negative and counts the shared holders, and at most one thread holds the
\* lock in exclusive mode.
C7_ReaderWriterExclusion ==
  /\ writer_active => reader_count = 0
  /\ reader_count > 0 => ~writer_active
  /\ reader_count >= 0
  /\ reader_count = Cardinality({t \in Threads : HoldsShared(t)})
  /\ Cardinality({t \in Threads : HoldsExclusive(t)}) <= 1
  /\ writer_active <=> (\E t \in Threads : HoldsExclusive(t))

\* A writer holds the lock while a reader and the other writer are blocked.
C7_Witness ==
  /\ prog = "rw" /\ writer_active
  /\ \E r \in Readers : pc[r] = "r_wait"
  /\ \E w \in Writers : pc[w] = "x_wait"

\* A reader acquires with none of the writers it arrived behind still waiting.
C8_WriterPreferenceStep ==
  \A r \in Readers :
    (pc[r] = "r_wait" /\ pc'[r] = "r_read") => \A w \in behind[r] : pc[w] # "x_wait"

\* C8 as stated: writer preference.  A reader whose lock_shared call started
\* while a writer was waiting acquires only after that writer has acquired.
C8_WriterPreference == [][C8_WriterPreferenceStep]_vars

\* A reader acquires with no writer holding the lock.
C8_NoReaderBesideWriterStep ==
  \A r \in Readers :
    (pc[r] = "r_wait" /\ pc'[r] = "r_read") =>
      (~writer_active /\ \A w \in Writers : ~HoldsExclusive(w))

\* C8 as amended: a reader whose lock_shared call started while a writer was
\* waiting acquires the lock in shared mode only at a moment when neither
\* that writer nor any other holds it in exclusive mode; the waiting writer
\* itself does not hold the reader back.
C8_NoReaderBesideWriter == [][C8_NoReaderBesideWriterStep]_vars

\* A reader that arrived after a writer started waiting holds the lock, next
\* to another reader, and that writer is still waiting.
C8_Witness ==
  \E r \in Readers :
    /\ pc[r] = "r_read" /\ reader_count >= 2
    /\ \E w \in behind[r] : pc[w] = "x_wait"

C10_AllOrNothing ==
  /\ prog = "multi" =>
       \A t \in Threads :
         /\ pc[t] = "ml_held" => HeldBy(t) = Range(req[t])
         /\ pc[t] \in {"ml_lock0", "ml_backoff", "done"} => HeldBy(t) = {}
  /\ prog = "scoped" =>
       \A t \in Threads :
         /\ pc[t] \in {"s_load", "s_store", "s_exit"} => owner = t
         /\ pc[t] \in {"slk", "done"} => owner # t

\* A thread backs off holding nothing after a failed TryLock, while the other
\* thread holds both resources.
C10_Witness ==
  /\ prog = "multi"
  /\ \E t, u \in Threads :
       /\ pc[t] = "ml_backoff" /\ Len(req[t]) = 2 /\ HeldBy(t) = {}
       /\ pc[u] = "ml_held" /\ Cardinality(HeldBy(u)) = 2

\* MultiLock's only blocking point is Lock(R0); t is blocked there while
\* another thread holds R0.
BlockedInMultiLock(t) == pc[t] = "ml_lock0" /\ held[req[t][1]] # 0

\* C11: MultiLock is deadlock-free.  With two threads calling MultiLock on
\* overlapping resources in any orders, in every reachable state in which some
\* call has not finished, some thread can take a step; and a thread that is
\* blocked waiting for a resource holds none, so no thread holds A while
\* blocked on B whose holder is blocked on A.
C11_DeadlockFree ==
  prog = "multi" =>
    /\ (\E t \in Threads : pc[t] # "done") => ENABLED NextMulti
    /\ \A t \in Threads : BlockedInMultiLock(t) => HeldBy(t) = {}
    /\ \A t, u \in Threads :
         ~(/\ t # u
           /\ BlockedInMultiLock(t) /\ held[req[t][1]] = u
           /\ BlockedInMultiLock(u) /\ held[req[u][1]] = t)

\* Two calls in opposite orders: each thread holds its first resource and is
\* about to try the one the other holds.
C11_Witness ==
  /\ prog = "multi"
  /\ \E t, u \in Threads :
       /\ t # u /\ pc[t] = "ml_try" /\ pc[u] = "ml_try"
       /\ held[req[t][idx[t]]] = u /\ held[req[u][idx[u]]] = t

\* Thread t is inside a MultiLock call that has not yet returned.
InMultiLock(t) == pc[t] \in {"ml_lock0", "ml_try", "ml_unwind", "ml_backoff"}

\* C12 as stated: under fair scheduling every MultiLock call eventually holds
\* all the resources of its request; the lock/try/release/retry loop does not
\* repeat forever.
C12_EveryCallAcquires ==
  \A t \in 1..NumThreads :
    (prog = "multi" /\ InMultiLock(t)) ~> (pc[t] = "ml_held")

\* No two requests of two or more resources start with different resources.
CommonFirst ==
  \A t, u \in Threads :
    (Len(req[t]) >= 2 /\ Len(req[u]) >= 2) => req[t][1] = req[u][1]

\* C12 as amended: under fair scheduling a MultiLock call eventually holds all
\* the resources of its request when no two contending requests of two or more
\* resources start with different resources.
C12_AcquiresWithCommonFirst ==
  \A t \in 1..NumThreads :
    (prog = "multi" /\ CommonFirst /\ InMultiLock(t)) ~> (pc[t] = "ml_held")

\* A thread backs off after a failed TryLock on a resource that the other
\* thread, whose request is that resource alone, holds.
C12_Witness ==
  /\ prog = "multi" /\ CommonFirst
  /\ \E t, u \in Threads :
       /\ t # u /\ Len(req[t]) = 2 /\ pc[t] = "ml_backoff"
       /\ pc[u] = "ml_held" /\ req[u] = <<req[t][2]>>

\* The resources thread t has taken, by its own account: the first idx[t]-1
\* of its request while it acquires, unwinds or holds them all.
Taken(t) ==
  IF pc[t] \in {"ml_try", "ml_unwind", "ml_held"}
    THEN {req[t][i] : i \in 1..(idx[t] - 1)}
    ELSE {}

\* C13: per-resource exclusivity under MultiLock.  In every reachable state,
\* also while a thread is part-way through acquiring or releasing after a
\* failed TryLock, no resource is among those two threads have taken, and the
\* resources a thread has taken are the ones recorded as held by it.
C13_ResourceExclusive ==
  prog = "multi" =>
    /\ \A t, u \in Threads : t # u => Taken(t) \cap Taken(u) = {}
    /\ \A t \in Threads : Taken(t) = HeldBy(t)

\* One thread is releasing after a failed TryLock while the other is part-way
\* through acquiring; each holds one resource.
C13_Witness ==
  /\ prog = "multi"
  /\ \E t, u \in Threads :
       /\ t # u /\ pc[t] = "ml_unwind" /\ pc[u] = "ml_try"
       /\ Taken(t) # {} /\ Taken(u) # {}

\* Thread t is inside the scope of the guard slk of scoped_lock.cpp.
InScopedGuard(t) == pc[t] \in {"s_load", "s_store", "s_exit"}

\* The guard's constructor returns with m held by its thread, and the step
\* that takes a thread out of a guard's scope releases what the guard held:
\* m is free, the reader is no longer counted, the writer is no longer active.
C14_ReleaseOnExit ==
  \A t \in Threads :
    /\ (prog = "scoped" /\ pc[t] = "slk" /\ pc'[t] # "slk") => owner' = t
    /\ (prog = "scoped" /\ InScopedGuard(t) /\ ~InScopedGuard(t)') => owner' = 0
    /\ (pc[t] = "r_exit" /\ pc'[t] # "r_exit") => reader_count' = reader_count - 1
    /\ (pc[t] = "x_exit" /\ pc'[t] # "x_exit") => ~writer_active'

\* With every thread outside the guard's scope, however it left, m is free
\* and a thread at the guard's constructor can lock it.
C14_FreeAfterExit ==
  prog = "scoped" =>
    /\ (\A t \in Threads : ~InScopedGuard(t)) => owner = 0
    /\ \A t \in Threads :
         (pc[t] = "slk" /\ \A u \in Threads : ~InScopedGuard(u))
           => ENABLED ScopedLockCtor(t)

\* C14: scoped release.  A scoped guard acquires on construction, and on every
\* exit from its scope (the end of the function, an early return, a failure
\* propagating out of the critical section) the mutex is free immediately
\* afterwards, so that another thread's lock can succeed.
C14_ScopedRelease == [](C14_FreeAfterExit) /\ [][C14_ReleaseOnExit]_vars

\* A thread's critical section has failed, and the other thread has locked m
\* since.
C14_Witness ==
  /\ prog = "scoped"
  /\ \E t, u \in Threads : pc[t] = "failed" /\ InScopedGuard(u) /\ owner = u

\* C17: manual lock/unlock is not exit-safe.  In mutex.cpp, once add_count has
\* thrown between m.lock() and m.unlock(), m stays locked by the thread that
\* threw, and every other thread that has calls of add_count left is blocked
\* in m.lock(), which can never return.  In scoped_lock.cpp a thread that left
\* the guard's scope by a failure does not hold m.
C17_ManualNotExitSafe ==
  /\ prog = "mutex" =>
       \A t \in Threads :
         pc[t] = "failed" =>
           /\ owner = t
           /\ \A u \in Threads \ {t} :
                /\ pc[u] \in {"lock", "done"}
                /\ ~ENABLED MutexLock(u)
  /\ prog = "scoped" =>
       \A t \in Threads : pc[t] \in {"failed", "returned"} => owner # t

\* add_count has thrown in one thread and the other is blocked in m.lock().
C17_Witness ==
  /\ prog = "mutex"
  /\ \E t, u \in Threads : pc[t] = "failed" /\ pc[u] = "lock" /\ owner = t

\* Thread t is at TryLock(Ri) and the step is its own.
TryLockStepOf(t) ==
  /\ prog = "multi" /\ pc[t] = "ml_try"
  /\ (pc'[t] # "ml_try" \/ idx'[t] # idx[t])

\* The outcome of a TryLock: on a free resource the caller becomes its holder
\* and goes on as after true; on a held one nothing about any resource changes
\* and the caller goes on as after false.  No other resource is touched.
C15_TryLockOutcome ==
  \A t \in Threads :
    TryLockStepOf(t) =>
      /\ IF held[req[t][idx[t]]] = 0
            THEN /\ held'[req[t][idx[t]]] = t
                 /\ pc'[t] \in {"ml_try", "ml_held"} /\ idx'[t] = idx[t] + 1
            ELSE /\ held' = held
                 /\ pc'[t] = "ml_unwind" /\ idx'[t] = idx[t]
      /\ \A r \in Resources \ {req[t][idx[t]]} : held'[r] = held[r]

\* A thread at TryLock can always take its step, whoever holds the resource.
C15_TryLockReturns ==
  \A t \in Threads : (prog = "multi" /\ pc[t] = "ml_try") => ENABLED MultiLockTry(t)

\* C15: TryLock never blocks and reports its outcome as a boolean.  On a free
\* resource it returns true and the caller becomes the holder; on a held one
\* it returns false, raises nothing, and leaves the resource and its holder
\* as they were.
C15_TryLock == [](C15_TryLockReturns) /\ [][C15_TryLockOutcome]_vars

\* TryLock has just returned false to a thread: the resource it tried is
\* still held by the other thread.
C15_Witness ==
  /\ prog = "multi"
  /\ \E t, u \in Threads :
       /\ t # u /\ pc[t] = "ml_unwind" /\ idx[t] = Len(req[t])
       /\ held[req[t][idx[t]]] = u

\* Thread t has a live guard bound to std::mutex m: slk of scoped_lock.cpp or
\* of add_count_and_notify, or lk of waiter_thread, which lives from its
\* construction, through cv.wait, to the end of waiter_thread.
GuardAlive(t) ==
  pc[t] \in {"s_load", "s_store", "s_exit", "i_load", "i_store", "i_if", "i_exit",
             "w_pred", "w_blocked", "w_relock", "w_print", "w_exit"}

\* Thread t is inside cv.wait with m released: blocked, or woken and about to
\* lock m again.
SuspendedInWait(t) == pc[t] \in {"w_blocked", "w_relock"}

\* C16 as stated: while a guard is alive its mutex is locked and no other live
\* guard exists for that mutex.
C16_GuardAliveLocked ==
  \A t \in Threads :
    GuardAlive(t) => (owner # 0 /\ \A u \in Threads \ {t} : ~GuardAlive(u))

\* C16 as amended: while a guard is alive and its thread is not suspended
\* inside Wait, its mutex is locked by that thread and every other live guard
\* for the mutex belongs to a thread suspended inside Wait; the guard of a
\* thread suspended inside Wait does not hold the mutex.
C16_GuardHoldsUnlessWaiting ==
  \A t \in Threads :
    /\ (GuardAlive(t) /\ ~SuspendedInWait(t)) =>
         /\ owner = t
         /\ \A u \in Threads \ {t} : GuardAlive(u) => SuspendedInWait(u)
    /\ SuspendedInWait(t) => owner # t

\* The guard of an incrementer holds m while the guard of a waiter blocked in
\* cv.wait is alive too.
C16_Witness ==
  \E t, u \in Threads : pc[t] = "i_store" /\ pc[u] = "w_blocked" /\ owner = t

\* Thread t is blocked in lock_shared() or lock() although m is free for it:
\* no exclusive holder, and for a writer no shared holder either.
BlockedThoughFree(t) ==
  /\ prog \in {"rw", "rwstress"} /\ t \in Threads
  /\ \/ pc[t] = "r_wait" /\ ~writer_active
     \/ pc[t] = "x_wait" /\ ~writer_active /\ reader_count = 0

\* What a release leaves behind.  The release of a shared hold takes one off
\* reader_count and changes nothing else, so that with the last reader gone m
\* is free for a waiting writer; the release of the exclusive hold clears
\* writer_active, and m is free for every waiter, reader or writer.
C18_ReleaseStep ==
  \A t \in Threads :
    /\ (pc[t] = "r_exit" /\ pc'[t] # "r_exit") =>
         /\ reader_count' = reader_count - 1
         /\ writer_active' = writer_active
         /\ reader_count' = 0 => ~writer_active'
    /\ (pc[t] = "x_exit" /\ pc'[t] # "x_exit") =>
         (~writer_active' /\ reader_count' = 0)

C19_ReadersShare ==
  prog \in {"rw", "rwstress"} =>
    \A r \in Readers :
      (/\ pc[r] = "r_wait"
       /\ ~writer_active
       /\ \A w \in Writers : pc[w] # "x_wait")
        => ENABLED ReaderAcquire(r)

\* Two readers hold m at the same time.
C19_Witness ==
  /\ prog = "rw" /\ reader_count >= 2
  /\ \E r1, r2 \in Readers : r1 # r2 /\ pc[r1] = "r_read" /\ pc[r2] = "r_read"

\* C20: in condition_variable.cpp a thread that is about to call cv.wait or
\* cv.notify_one, or to read or write count (the increment, the test
\* count == 2, the predicate of the wait, the print), holds m.
C20_HoldsMutexAtWaitAndNotify ==
  prog = "cv" =>
    \A t \in Threads :
      pc[t] \in {"i_load", "i_store", "i_if", "w_pred", "w_print"} => owner = t

\* An incrementer that holds m is about to notify a blocked waiter.
C20_Witness ==
  /\ prog = "cv" /\ count = 2 /\ waiters # {}
  /\ \E t \in Threads : pc[t] = "i_if" /\ owner = t

\* The writers whose write_value call has returned.
WritersDone == {w \in Writers : pc[w] = "done"}

\* C22: reader/writer demo values.  With W writers each adding 3 under the
\* exclusive lock, a reader inside read_value finds in count the sum of the
\* writes that have completed, every value a reader printed is one of
\* 0, 3, ..., 3*W, and once all threads have finished count is 3*W.
C22_DemoValues ==
  prog \in {"rw", "rwstress"} =>
    /\ \A r \in Readers :
         /\ pc[r] = "r_read" => count = WriteAdd * Cardinality(WritersDone)
         /\ seen[r] # -1 => seen[r] \in {WriteAdd * k : k \in 0..Cardinality(Writers)}
    /\ (\A t \in Threads : pc[t] = "done") => count = WriteAdd * Cardinality(Writers)

\* rwlock.cpp has run to its end with count 6, one reader having printed 3 and
\* another 0 or 6.
C22_Witness ==
  /\ prog = "rw" /\ count = WriteAdd * NumWriters
  /\ \A t \in Threads : pc[t] = "done"
  /\ \E r1, r2 \in Readers : seen[r1] = WriteAdd /\ seen[r2] # WriteAdd

\* Every spawned thread has returned and holds nothing.
AllJoined ==
  /\ \A t \in Threads : pc[t] = "done"
  /\ owner = 0 /\ reader_count = 0 /\ ~writer_active

\* The program runs as written: no failure is injected into add_count.
AsWritten == prog \in {"mutex", "scoped", "rw"} /\ ~mayFail

\* As long as a thread has not returned, some thread can take a step.
C23_NoDeadlock ==
  (AsWritten /\ \E t \in Threads : pc[t] # "done") => ENABLED NextDemo

\* C23: the demo programs terminate.  Under fair scheduling, in mutex.cpp,
\* scoped_lock.cpp and rwlock.cpp every spawned thread acquires its lock,
\* finishes and releases it, so that every join of main returns; and no
\* reachable state is a deadlock.
C23_DemosTerminate == [](C23_NoDeadlock) /\ (AsWritten ~> AllJoined)

\* mutex.cpp has run to its end with two calls of add_count per thread: both
\* threads have returned, m is free and main has printed.
C23_Witness ==
  AsWritten /\ prog = "mutex" /\ iters = 2 /\ AllJoined /\ seen[0] = count

\* The live IntPtrManager objects whose ptr_ points to allocation p.
Owners(p) == {m \in Managers : alive[m] /\ ptr_[m] = p}

\* C24: IntPtrManager unique ownership.  After any sequence of constructions,
\* move constructions, move assignments and destructions, each allocated int
\* is pointed to by the ptr_ of at most one live object, an object that was
\* the source of a move holds nullptr, what a live object points to has not
\* been deleted, and no allocation has been deleted twice.
C24_UniqueOwnership ==
  prog = "wrapper" =>
    /\ \A p \in Allocations : Cardinality(Owners(p)) <= 1
    /\ \A m \in moved : ptr_[m] = 0
    /\ \A m \in Managers : (alive[m] /\ ptr_[m] # 0) => heap[ptr_[m]] = "live"
    /\ \A p \in Allocations : heap[p] # "deleted_twice"

\* main before its return: a was moved into b, a holds nullptr, b owns the
\* int that a allocated, and main has printed its value 645.
C24_Witness ==
  /\ prog = "wrapper"
  /\ \E a, b \in Managers :
       /\ a # b /\ alive[a] /\ alive[b] /\ a \in moved
       /\ ptr_[a] = 0 /\ ptr_[b] # 0 /\ heap[ptr_[b]] = "live"
       /\ cell[ptr_[b]] = 645 /\ seen[0] = 645

====
